---- MODULE Spec2Model ----
(***************************************************************************)
(* The environment overlay manager of cli/util/env_loader.rs: EnvManager   *)
(* layers variables read from .env files over the process environment and  *)
(* keeps a ledger (file_variables, loaded_variables, original_env) of what *)
(* it set.  The file system and the process environment are shared with    *)
(* code outside the manager, which appears here as the actions WriteFile,  *)
(* ExternalSetVar and ExternalRemoveVar.                                   *)
(***************************************************************************)
EXTENDS Naturals, Sequences, FiniteSets, TLC

\* Longest .env file, in lines, and longest list handed to a batch load.
MaxLines == 2
MaxBatch == 2

Files == {"f1", "f2"}
\* The threads of the process that call the manager.
Threads == {"t1", "t2"}
Vars == {"X"}
\* The value every assignment of a file gives: the two files never agree,
\* and one of them assigns the empty value of `KEY=`.
ValueOf == [f \in Files |-> IF f = "f1" THEN "a" ELSE ""]
\* Values code outside the manager may assign.
Values == {"", "a"}
\* The value a variable of the baseline has when the manager is created.
BaselineValue == "o"

VARIABLES
  env,              \* the process environment: present names -> value
  original_env,     \* EnvManagerInner.original_env
  file_variables,   \* EnvManagerInner.file_variables: tracked path -> set of names
  loaded_variables, \* EnvManagerInner.loaded_variables: name -> path (source)
  fs,               \* the file system: path -> what is on disk
  last,             \* the most recent event and what it returned
  ENV_MANAGER,      \* the OnceLock<EnvManager> behind EnvManager::instance()
  new_calls,        \* how many times EnvManagerInner::new has run
  thread,           \* per thread: where it is and the manager it holds
  batch             \* the load_env_variables_from_env_files call under way

\* What the callers of the manager add to its state.
callers == <<ENV_MANAGER, new_calls, thread, batch>>

vars == <<env, original_env, file_variables, loaded_variables, fs, last,
          callers>>

----------------------------------------------------------------------------
\* Maps with a varying set of keys (HashMap, the process environment).

insert(m, k, v) == [x \in (DOMAIN m) \cup {k} |-> IF x = k THEN v ELSE m[x]]
remove(m, k) == [x \in (DOMAIN m) \ {k} |-> m[x]]
\* env::set_var as it would be if it kept the value of a name already set.
set_var_if_absent(e, k, v) == IF k \in DOMAIN e THEN e ELSE insert(e, k, v)
set_var(e, k, v) == insert(e, k, v)
remove_var(e, k) == remove(e, k)
EmptyMap == [x \in {} |-> ""]

----------------------------------------------------------------------------
\* What a path holds.  A line is what the parser yields for it: a pair or a
\* line-level parse error.

OkLine(k, v) == [ok |-> TRUE, key |-> k, value |-> v]
BadLine == [ok |-> FALSE, key |-> "", value |-> ""]
Lines(f) == {OkLine(k, ValueOf[f]) : k \in Vars} \cup {BadLine}

Missing == [exists |-> FALSE, readable |-> FALSE, lines |-> <<>>]
Unreadable == [exists |-> TRUE, readable |-> FALSE, lines |-> <<>>]
Readable(ls) == [exists |-> TRUE, readable |-> TRUE, lines |-> ls]
Contents(f) ==
  {Missing, Unreadable}
    \cup {Readable(ls) : ls \in UNION {[1..n -> Lines(f)] : n \in 0..MaxLines}}

----------------------------------------------------------------------------
\* The manager's state as one value, so that an operation can call another.

State(e, fv, lv) == [env |-> e, file_variables |-> fv, loaded_variables |-> lv]
Current == State(env, file_variables, loaded_variables)

\* Option<T>: None is the empty set, Some(x) is {x}.
None == {}
Some(x) == {x}

----------------------------------------------------------------------------
\* _unload_env_file_inner

\* inner.loaded_variables.get(&var_name).unwrap_or(&"".to_string())
get_or_empty(lv, var_name) ==
  IF var_name \in DOMAIN lv THEN lv[var_name] ELSE ""

\* The comparison that decides whether a variable absent from original_env
\* is removed: the live value against the ledger entry read after the entry
\* was removed two statements earlier.
unchanged_since_set(current_value, lv, var_name) ==
  current_value = get_or_empty(lv, var_name)

\* The turn as it would be if the variable stayed in loaded_variables.
unload_var_keep_source(st, var_name) ==
  LET e == st.env
      e2 == IF var_name \in DOMAIN original_env
              THEN set_var(e, var_name, original_env[var_name])
            ELSE IF var_name \in DOMAIN e
                      /\ unchanged_since_set(e[var_name], st.loaded_variables,
                                             var_name)
              THEN remove_var(e, var_name)
            ELSE e
  IN  State(e2, st.file_variables, st.loaded_variables)

\* One turn of `for var_name in variables`.
unload_var(st, var_name) ==
  LET lv == remove(st.loaded_variables, var_name)
      e == st.env
      e2 == IF var_name \in DOMAIN original_env
              THEN set_var(e, var_name, original_env[var_name])
            ELSE IF var_name \in DOMAIN e
                      /\ unchanged_since_set(e[var_name], lv, var_name)
              THEN remove_var(e, var_name)
            ELSE e
  IN  State(e2, st.file_variables, lv)

RECURSIVE unload_vars(_, _)
unload_vars(st, variables) ==
  IF variables = {} THEN st
  ELSE LET var_name == CHOOSE x \in variables : TRUE
       IN  unload_vars(unload_var(st, var_name), variables \ {var_name})

\* _unload_env_file_inner as it would be if a path that is not tracked were
\* taken to own every variable.
_unload_env_file_inner_any(st, path_str) ==
  IF path_str \in DOMAIN st.file_variables
    THEN unload_vars(
           State(st.env, remove(st.file_variables, path_str), st.loaded_variables),
           st.file_variables[path_str])
    ELSE unload_vars(st, Vars)

_unload_env_file_inner(st, path_str) ==
  IF path_str \in DOMAIN st.file_variables
    THEN unload_vars(
           State(st.env, remove(st.file_variables, path_str), st.loaded_variables),
           st.file_variables[path_str])
    ELSE st

----------------------------------------------------------------------------
\* The parser (dotenvy) as load_env_file uses it.

\* Iter::load, behind dotenvy::from_filename: sets each parsed pair whose
\* name is not in the environment yet and stops at the first line error.
RECURSIVE iter_load(_, _, _)
iter_load(lines, i, e) ==
  IF i > Len(lines) THEN [env |-> e, ok |-> TRUE]
  ELSE IF ~lines[i].ok THEN [env |-> e, ok |-> FALSE]
  ELSE iter_load(lines, i + 1,
         IF lines[i].key \in DOMAIN e THEN e
         ELSE set_var(e, lines[i].key, lines[i].value))

from_filename(file, e) ==
  IF file.readable THEN iter_load(file.lines, 1, e)
  ELSE [env |-> e, ok |-> FALSE]

\* `for item in iter`: every parsed pair is set and tracked, a line error is
\* logged and the loop goes on.
RECURSIVE for_item(_, _, _, _)
for_item(lines, i, acc, path_str) ==
  IF i > Len(lines) THEN acc
  ELSE IF lines[i].ok
    THEN for_item(lines, i + 1,
           [env |-> set_var(acc.env, lines[i].key, lines[i].value),
            current_file_vars |-> acc.current_file_vars \cup {lines[i].key},
            loaded_variables |->
              insert(acc.loaded_variables, lines[i].key, path_str),
            loaded_count |-> acc.loaded_count + 1],
           path_str)
    ELSE for_item(lines, i + 1, acc, path_str)

----------------------------------------------------------------------------
\* load_env_file.  iter_opens says whether the second open of the file, by
\* dotenvy::from_path_iter, succeeds; it is reached only after
\* dotenvy::from_filename read the whole file.

Ret(st, ok, count) == [st |-> st, ok |-> ok, count |-> count]

\* Lines 182-185: the file's set is stored and the count returned.
load_store(st1, acc, path_str) ==
  Ret(State(acc.env,
            insert(st1.file_variables, path_str, acc.current_file_vars),
            acc.loaded_variables),
      TRUE, acc.loaded_count)

\* Lines 92-180: `match dotenvy::from_filename(..)`, with first its outcome.
load_match(st1, first, file, path_str, iter_opens) ==
  IF ~first.ok
    THEN Ret(State(first.env, insert(st1.file_variables, path_str, {}),
                   st1.loaded_variables), TRUE, 0)
  ELSE IF ~iter_opens
    THEN Ret(State(first.env, st1.file_variables, st1.loaded_variables),
             FALSE, 0)
  ELSE load_store(st1,
                  for_item(file.lines, 1,
                           [env |-> first.env,
                            current_file_vars |-> {},
                            loaded_variables |-> st1.loaded_variables,
                            loaded_count |-> 0],
                           path_str),
                  path_str)

\* Lines 74-186: what follows the unload, with st1 the state it left.
load_unloaded(st1, file, path_str, iter_opens) ==
  IF ~file.exists
    THEN Ret(State(st1.env, remove(st1.file_variables, path_str),
                   st1.loaded_variables), TRUE, 0)
    ELSE load_match(st1, from_filename(file, st1.env), file, path_str,
                    iter_opens)

\* load_env_file as it would be if a path already tracked were skipped
\* instead of unloaded and read again.
load_env_file_skip_tracked(st, path_str, iter_opens) ==
  IF path_str \in DOMAIN st.file_variables
    THEN Ret(st, TRUE, 0)
    ELSE load_unloaded(st, fs[path_str], path_str, iter_opens)

load_env_file(st, path_str, iter_opens) ==
  load_unloaded(_unload_env_file_inner(st, path_str), fs[path_str], path_str,
                iter_opens)

\* Whether a load of path_str gets as far as the second open.
ReachesIter(st, path_str) ==
  /\ fs[path_str].exists
  /\ from_filename(fs[path_str], _unload_env_file_inner(st, path_str).env).ok

unload_env_file(st, path_str) == _unload_env_file_inner(st, path_str)

\* reload_env_file as it would be if it read the file again without
\* unloading what the path owns.
reload_env_file_no_unload(st, path_str, iter_opens) ==
  load_unloaded(st, fs[path_str], path_str, iter_opens)

reload_env_file(st, path_str, iter_opens) ==
  load_env_file(st, path_str, iter_opens)

\* load_env_variables_from_env_files: `for env_file_name in
\* env_file_names.iter().rev()`, from position i down to 1.  oks keeps, per
\* position of the list, whether that load returned Ok.
RECURSIVE load_rev(_, _, _, _, _, _)
\* The loop body as it would be if an Err ended the batch.
load_counted_abort(r, env_file_names, iter_opens, i, total_loaded, oks) ==
  IF r.ok
    THEN load_rev(r.st, env_file_names, iter_opens, i - 1,
                  total_loaded + r.count, oks)
    ELSE [st |-> r.st, count |-> total_loaded,
          oks |-> [oks EXCEPT ![i] = FALSE]]

load_counted(r, env_file_names, iter_opens, i, total_loaded, oks) ==
  load_rev(r.st, env_file_names, iter_opens, i - 1,
           IF r.ok THEN total_loaded + r.count ELSE total_loaded,
           [oks EXCEPT ![i] = r.ok])

load_rev(st, env_file_names, iter_opens, i, total_loaded, oks) ==
  IF i = 0 THEN [st |-> st, count |-> total_loaded, oks |-> oks]
  ELSE load_counted(load_env_file(st, env_file_names[i], iter_opens[i]),
                    env_file_names, iter_opens, i, total_loaded, oks)

load_names(st, env_file_names, iter_opens) ==
  load_rev(st, env_file_names, iter_opens, Len(env_file_names), 0,
           [i \in 1..Len(env_file_names) |-> TRUE])

load_env_variables_from_env_files(st, file_paths, iter_opens) ==
  IF file_paths = None THEN [st |-> st, count |-> 0, oks |-> <<>>]
  ELSE load_names(st, CHOOSE p \in file_paths : TRUE, iter_opens)

\* cleanup: unloads every key of file_variables.  The order is the hash
\* map's; each variable is handled alike under every order.
RECURSIVE unload_all(_, _)
unload_all(st, file_paths) ==
  IF file_paths = {} THEN st
  ELSE LET file_path == CHOOSE f \in file_paths : TRUE
       IN  unload_all(_unload_env_file_inner(st, file_path),
                      file_paths \ {file_path})

\* cleanup as it would be if it unloaded only the files that are the source
\* of a variable.
cleanup_sources(st) ==
  unload_all(st, {st.loaded_variables[x] : x \in DOMAIN st.loaded_variables})

cleanup(st) == unload_all(st, DOMAIN st.file_variables)

\* The queries.
get_loaded_variables == loaded_variables
get_variables_from_file(file_path) ==
  IF file_path \in DOMAIN file_variables
    THEN Some(file_variables[file_path]) ELSE None
loaded_files_count == Cardinality(DOMAIN file_variables)
managed_variables_count == Cardinality(DOMAIN loaded_variables)
is_managed_variable(var_name) == var_name \in DOMAIN loaded_variables
get_variable_source(var_name) ==
  IF var_name \in DOMAIN loaded_variables
    THEN Some(loaded_variables[var_name]) ELSE None

----------------------------------------------------------------------------
\* Events: the most recent call or outside change, what it was given and
\* what it returned (for cleanup, which returns nothing, count is the number
\* of paths it collected to unload).  again says that the event before it
\* was the same call with the same arguments; for an outside write of a
\* variable, file names the path whose load came immediately before it (""
\* when none did).

Event(op, file, paths, ok, count, oks, var, value, again) ==
  [op |-> op, file |-> file, paths |-> paths, ok |-> ok, count |-> count,
   oks |-> oks, var |-> var, value |-> value, again |-> again]
Call(op, file, ok, count) ==
  Event(op, file, None, ok, count, <<>>, "", "",
        last.op = op /\ last.file = file /\ last.ok)
NoEvent == Event("new", "", None, TRUE, 0, <<>>, "", "", FALSE)

PathLists == UNION {[1..n -> Files] : n \in 0..MaxBatch}

Apply(st) ==
  /\ env' = st.env
  /\ file_variables' = st.file_variables
  /\ loaded_variables' = st.loaded_variables

\* The OnceLock: its state and the manager it holds (0 while it holds none;
\* the n-th manager made is n).
OnceLock(state, value) == [state |-> state, value |-> value]
\* A thread: "start" before it calls instance(), "new" while it runs the
\* closure of get_or_init, "ready" when it holds the &'static EnvManager.
Thread(pc, manager) == [pc |-> pc, manager |-> manager]

\* No batch load is under way.
NoBatch ==
  [thread |-> "", paths |-> <<>>, i |-> 0, total_loaded |-> 0, oks |-> <<>>]

\* The environments the process may start with, and the files.
Environments == {[x \in S |-> BaselineValue] : S \in SUBSET Vars}
FileSystems ==
  {c \in [Files -> UNION {Contents(f) : f \in Files}] :
     \A f \in Files : c[f] \in Contents(f)}

\* The state once the manager is made and every thread holds it.
Init ==
  /\ original_env \in Environments
  /\ env = original_env
  /\ file_variables = EmptyMap
  /\ loaded_variables = EmptyMap
  /\ fs \in FileSystems
  /\ last = NoEvent
  /\ ENV_MANAGER = OnceLock("init", 1)
  /\ new_calls = 1
  /\ thread = [t \in Threads |-> Thread("ready", 1)]
  /\ batch = NoBatch

\* A call that returns r: the state it leaves and the event it records.
Returns(op, f, r) ==
  /\ Apply(r.st)
  /\ last' = Call(op, f, r.ok, r.count)
  /\ UNCHANGED <<original_env, fs, callers>>

LoadEnvFile(f, iter_opens) ==
  /\ ~iter_opens => ReachesIter(Current, f)
  /\ Returns("load", f, load_env_file(Current, f, iter_opens))

UnloadEnvFile(f) ==
  /\ Apply(unload_env_file(Current, f))
  /\ last' = Call("unload", f, TRUE, 0)
  /\ UNCHANGED <<original_env, fs, callers>>

ReloadEnvFile(f, iter_opens) ==
  /\ ~iter_opens => ReachesIter(Current, f)
  /\ Returns("reload", f, reload_env_file(Current, f, iter_opens))

BatchReturns(file_paths, iter_opens, r) ==
  /\ r.oks = iter_opens
  /\ Apply(r.st)
  /\ last' = Event("batch", "", file_paths, TRUE, r.count, r.oks, "", "",
                   last.op = "batch" /\ last.paths = file_paths)
  /\ UNCHANGED <<original_env, fs, callers>>

LoadEnvVariablesFromEnvFiles(file_paths, iter_opens) ==
  BatchReturns(file_paths, iter_opens,
    load_env_variables_from_env_files(Current, file_paths, iter_opens))

Cleanup ==
  /\ Apply(cleanup(Current))
  /\ last' = Call("cleanup", "", TRUE, Cardinality(DOMAIN file_variables))
  /\ UNCHANGED <<original_env, fs, callers>>

\* Code outside the manager.
WriteFile(f, content) ==
  /\ content # fs[f]
  /\ fs' = [fs EXCEPT ![f] = content]
  /\ last' = Event("write", f, None, TRUE, 0, <<>>, "", "", FALSE)
  /\ UNCHANGED <<env, original_env, file_variables, loaded_variables, callers>>

ExternalSetVar(k, v) ==
  /\ k \in DOMAIN env => env[k] # v
  /\ env' = set_var(env, k, v)
  /\ last' = Event("set_var", IF last.op = "load" THEN last.file ELSE "",
                   None, TRUE, 0, <<>>, k, v, FALSE)
  /\ UNCHANGED <<original_env, file_variables, loaded_variables, fs, callers>>

ExternalRemoveVar(k) ==
  /\ k \in DOMAIN env
  /\ env' = remove_var(env, k)
  /\ last' = Event("remove_var", "", None, TRUE, 0, <<>>, k, "", FALSE)
  /\ UNCHANGED <<original_env, file_variables, loaded_variables, fs, callers>>

Next ==
  \/ \E f \in Files, iter_opens \in BOOLEAN : LoadEnvFile(f, iter_opens)
  \/ \E f \in Files : UnloadEnvFile(f)
  \/ \E f \in Files, iter_opens \in BOOLEAN : ReloadEnvFile(f, iter_opens)
  \/ \E p \in PathLists : \E iter_opens \in [DOMAIN p -> BOOLEAN] :
       LoadEnvVariablesFromEnvFiles(Some(p), iter_opens)
  \/ LoadEnvVariablesFromEnvFiles(None, <<>>)
  \/ Cleanup
  \/ \E f \in Files : \E content \in Contents(f) : WriteFile(f, content)
  \/ \E k \in Vars, v \in Values : ExternalSetVar(k, v)
  \/ \E k \in Vars : ExternalRemoveVar(k)

Spec == Init /\ [][Next]_vars

\* The manager's operations and changes of files, with no write of the
\* process environment by code outside the manager.
NextManaged ==
  \/ \E f \in Files, iter_opens \in BOOLEAN : LoadEnvFile(f, iter_opens)
  \/ \E f \in Files : UnloadEnvFile(f)
  \/ \E f \in Files, iter_opens \in BOOLEAN : ReloadEnvFile(f, iter_opens)
  \/ \E p \in PathLists : \E iter_opens \in [DOMAIN p -> BOOLEAN] :
       LoadEnvVariablesFromEnvFiles(Some(p), iter_opens)
  \/ LoadEnvVariablesFromEnvFiles(None, <<>>)
  \/ Cleanup
  \/ \E f \in Files : \E content \in Contents(f) : WriteFile(f, content)

SpecManaged == Init /\ [][NextManaged]_vars

\* The single-file calls alone, with every change from outside.  A batch
\* load and a reload are loads, and cleanup is unloads, made under one lock:
\* they reach no state of the manager that these do not.
NextLoad ==
  \/ \E f \in Files, iter_opens \in BOOLEAN : LoadEnvFile(f, iter_opens)
  \/ \E f \in Files : UnloadEnvFile(f)
  \/ \E f \in Files : \E content \in Contents(f) : WriteFile(f, content)
  \/ \E k \in Vars, v \in Values : ExternalSetVar(k, v)
  \/ \E k \in Vars : ExternalRemoveVar(k)

SpecLoad == Init /\ [][NextLoad]_vars

----------------------------------------------------------------------------
\* EnvManager::instance() and the threads that call it.  Every convenience
\* function calls instance() before it calls the manager.

\* get_or_init as it would be with a check and no exclusion: a caller runs
\* the closure whenever the cell is not initialized yet.
get_or_init_runs_unguarded(cell) == cell.state # "init"

\* get_or_init as it would be if the cell did not keep its value: a caller
\* runs the closure unless another is running it.
get_or_init_runs_again(cell) == cell.state # "running"

\* OnceLock::get_or_init: whether the caller is the one that runs the
\* closure.  Callers that arrive while it runs wait for it to finish.
get_or_init_runs(cell) == cell.state = "uninit"

\* EnvManagerInner::new: the environment as it is now, and an empty ledger.
EnvManagerInner_new(e) ==
  [file_variables |-> EmptyMap, loaded_variables |-> EmptyMap,
   original_env |-> e]

\* The process before any thread called instance().
Started == Event("main", "", None, TRUE, 0, <<>>, "", "", FALSE)

InitProcess ==
  /\ env \in Environments
  /\ original_env = EmptyMap
  /\ file_variables = EmptyMap
  /\ loaded_variables = EmptyMap
  /\ fs \in FileSystems
  /\ last = Started
  /\ ENV_MANAGER = OnceLock("uninit", 0)
  /\ new_calls = 0
  /\ thread = [t \in Threads |-> Thread("start", 0)]
  /\ batch = NoBatch

\* Thread t calls instance() and enters get_or_init.
InstanceCall(t) ==
  /\ thread[t].pc = "start"
  /\ IF get_or_init_runs(ENV_MANAGER)
       THEN /\ ENV_MANAGER' = OnceLock("running", ENV_MANAGER.value)
            /\ thread' = [thread EXCEPT ![t] = Thread("new", 0)]
       ELSE /\ thread' = [thread EXCEPT ![t] =
                          IF ENV_MANAGER.state = "init"
                            THEN Thread("ready", ENV_MANAGER.value)
                            ELSE Thread("wait", 0)]
            /\ UNCHANGED ENV_MANAGER
  /\ UNCHANGED <<env, original_env, file_variables, loaded_variables, fs,
                 last, new_calls, batch>>

\* The closure of get_or_init: EnvManagerInner::new captures the
\* environment, and the cell holds the manager made.
InstanceNew(t) ==
  /\ thread[t].pc = "new"
  /\ new_calls < Cardinality(Threads)
  /\ LET inner == EnvManagerInner_new(env)
     IN  /\ original_env' = inner.original_env
         /\ file_variables' = inner.file_variables
         /\ loaded_variables' = inner.loaded_variables
  /\ new_calls' = new_calls + 1
  /\ ENV_MANAGER' = OnceLock("init", new_calls + 1)
  /\ thread' = [thread EXCEPT ![t] = Thread("ready", new_calls + 1)]
  /\ last' = NoEvent
  /\ UNCHANGED <<env, fs, batch>>

\* get_or_init returns the manager of the cell to a caller that arrived
\* while another thread ran the closure.
InstanceGet(t) ==
  /\ thread[t].pc = "wait"
  /\ ENV_MANAGER.state = "init"
  /\ thread' = [thread EXCEPT ![t] = Thread("ready", ENV_MANAGER.value)]
  /\ UNCHANGED <<env, original_env, file_variables, loaded_variables, fs,
                 last, ENV_MANAGER, new_calls, batch>>

\* Thread t holds the manager and is not inside a batch load.
Free(t) == thread[t].pc = "ready" /\ batch.thread # t

\* The convenience function returns; the next one calls instance() again.
Return(t) ==
  /\ Free(t)
  /\ thread' = [thread EXCEPT ![t] = Thread("start", 0)]
  /\ UNCHANGED <<env, original_env, file_variables, loaded_variables, fs,
                 last, ENV_MANAGER, new_calls, batch>>

\* The calls of a thread on the manager it holds.
ThreadLoad(t, f, iter_opens) == Free(t) /\ LoadEnvFile(f, iter_opens)
ThreadUnload(t, f) == Free(t) /\ UnloadEnvFile(f)
ThreadCleanup(t) == Free(t) /\ Cleanup

ThreadLoadedFilesCount(t) ==
  /\ Free(t)
  /\ last' = Call("loaded_files_count", "", TRUE, loaded_files_count)
  /\ UNCHANGED <<env, original_env, file_variables, loaded_variables, fs,
                 callers>>

\* The process from its start: threads call instance() and then load and
\* unload, while code outside the manager writes the environment.
NextInstance ==
  \/ \E t \in Threads : InstanceCall(t)
  \/ \E t \in Threads : InstanceNew(t)
  \/ \E t \in Threads : InstanceGet(t)
  \/ \E t \in Threads : Return(t)
  \/ \E t \in Threads, f \in Files, iter_opens \in BOOLEAN :
       ThreadLoad(t, f, iter_opens)
  \/ \E t \in Threads, f \in Files : ThreadUnload(t, f)
  \/ \E k \in Vars, v \in Values : ExternalSetVar(k, v)
  \/ \E k \in Vars : ExternalRemoveVar(k)

SpecInstance == InitProcess /\ [][NextInstance]_vars

----------------------------------------------------------------------------
\* load_env_variables_from_env_files as concurrent threads see it: the
\* function takes no lock of its own, every load_env_file of its loop locks
\* and unlocks the manager, and other threads run between two of them.

\* Lines 240-244: the list is there, the loop starts at its end.
BatchBegin(t, p) ==
  /\ Free(t)
  /\ batch = NoBatch
  /\ batch' = [thread |-> t, paths |-> p, i |-> Len(p), total_loaded |-> 0,
               oks |-> [i \in DOMAIN p |-> TRUE]]
  /\ UNCHANGED <<env, original_env, file_variables, loaded_variables, fs,
                 last, ENV_MANAGER, new_calls, thread>>

\* Lines 247-263: one turn of the loop, with r what load_env_file returns.
BatchLoaded(f, r) ==
  /\ Apply(r.st)
  /\ last' = Call("load", f, r.ok, r.count)
  /\ batch' = [batch EXCEPT
                 !.i = batch.i - 1,
                 !.total_loaded = IF r.ok THEN batch.total_loaded + r.count
                                  ELSE batch.total_loaded,
                 !.oks = [batch.oks EXCEPT ![batch.i] = r.ok]]
  /\ UNCHANGED <<original_env, fs, ENV_MANAGER, new_calls, thread>>

BatchLoad(iter_opens) ==
  /\ batch.thread # ""
  /\ batch.i >= 1
  /\ ~iter_opens => ReachesIter(Current, batch.paths[batch.i])
  /\ BatchLoaded(batch.paths[batch.i],
                 load_env_file(Current, batch.paths[batch.i], iter_opens))

\* Line 266: total_loaded is returned.
BatchReturn ==
  /\ batch.thread # ""
  /\ batch.i = 0
  /\ last' = Event("batch", "", Some(batch.paths), TRUE, batch.total_loaded,
                   batch.oks, "", "", FALSE)
  /\ batch' = NoBatch
  /\ UNCHANGED <<env, original_env, file_variables, loaded_variables, fs,
                 ENV_MANAGER, new_calls, thread>>

\* Threads that hold the manager call it, over every file system there may
\* be; a batch load is a sequence of steps.
NextThreads ==
  \/ \E t \in Threads, f \in Files, iter_opens \in BOOLEAN :
       ThreadLoad(t, f, iter_opens)
  \/ \E t \in Threads, f \in Files : ThreadUnload(t, f)
  \/ \E t \in Threads : ThreadCleanup(t)
  \/ \E t \in Threads : ThreadLoadedFilesCount(t)
  \/ \E t \in Threads, p \in PathLists : BatchBegin(t, p)
  \/ \E iter_opens \in BOOLEAN : BatchLoad(iter_opens)
  \/ BatchReturn

SpecThreads == Init /\ [][NextThreads]_vars

----------------------------------------------------------------------------
\* What a file says.

\* The positions of the well-formed lines of f that assign x.
Assigns(f, x) ==
  {i \in DOMAIN fs[f].lines : fs[f].lines[i].ok /\ fs[f].lines[i].key = x}
Defines(f, x) == fs[f].readable /\ Assigns(f, x) # {}
HasBadLine(f) ==
  fs[f].readable /\ \E i \in DOMAIN fs[f].lines : ~fs[f].lines[i].ok
WellFormed(f) == {i \in DOMAIN fs[f].lines : fs[f].lines[i].ok}
\* The value f gives x: that of its last assignment.
AssignedValue(f, x) ==
  fs[f].lines[CHOOSE i \in Assigns(f, x) : \A j \in Assigns(f, x) : j <= i].value

Loaded(f) == last.op = "load" /\ last.file = f /\ last.ok
ThenUnloaded(f) == last'.op = "unload" /\ last'.file = f

----------------------------------------------------------------------------
\* C1: a variable absent from the baseline that a file defines is absent
\* from the process environment again after load_env_file(F) followed by
\* unload_env_file(F), when no other file is loaded and nothing outside the
\* manager wrote the variable.
C1_LoadUnloadLeavesAbsent ==
  [][\A f \in Files, x \in Vars :
       (/\ Loaded(f) /\ Defines(f, x) /\ ~HasBadLine(f)
        /\ x \notin DOMAIN original_env
        /\ DOMAIN file_variables \subseteq {f}
        /\ ThenUnloaded(f))
       => x \notin DOMAIN env']_vars

\* C2: a variable of the baseline that a file defines has its baseline value
\* again after load_env_file(F) followed by unload_env_file(F), when nothing
\* outside the manager wrote the variable.
C2_LoadUnloadRestoresBaseline ==
  [][\A f \in Files, x \in Vars :
       (/\ Loaded(f) /\ Defines(f, x)
        /\ x \in DOMAIN original_env
        /\ ThenUnloaded(f))
       => (x \in DOMAIN env' /\ env'[x] = original_env[x])]_vars

\* C2 for the files every line of which is well-formed.
C2_WellFormedOnly ==
  [][\A f \in Files, x \in Vars :
       (/\ Loaded(f) /\ Defines(f, x) /\ ~HasBadLine(f)
        /\ x \in DOMAIN original_env
        /\ ThenUnloaded(f))
       => (x \in DOMAIN env' /\ env'[x] = original_env[x])]_vars

\* The batch load of the list <<f1, f2>> of two readable files that both
\* define x, with different values, every load of it returning Ok.
BatchOfTwo(f1, f2, x) ==
  /\ last.op = "batch" /\ last.paths = Some(<<f1, f2>>)
  /\ f1 # f2
  /\ \A i \in DOMAIN last.oks : last.oks[i]
  /\ Defines(f1, x) /\ Defines(f2, x)
  /\ AssignedValue(f1, x) # AssignedValue(f2, x)

\* C3: after load_env_variables_from_env_files([F1, F2]) of two readable
\* files that both define X with different values, the process environment
\* holds F1's value for X and get_variable_source(X) is F1.
C3_FirstListedWins ==
  \A f1 \in Files, f2 \in Files, x \in Vars :
    BatchOfTwo(f1, f2, x)
      => /\ x \in DOMAIN env /\ env[x] = AssignedValue(f1, x)
         /\ get_variable_source(x) = Some(f1)

\* C3 for the files every line of which is well-formed.
C3_WellFormedOnly ==
  \A f1 \in Files, f2 \in Files, x \in Vars :
    (BatchOfTwo(f1, f2, x) /\ ~HasBadLine(f1) /\ ~HasBadLine(f2))
      => /\ x \in DOMAIN env /\ env[x] = AssignedValue(f1, x)
         /\ get_variable_source(x) = Some(f1)

\* C4: after load_env_variables_from_env_files([F1, F2]) where both files
\* define X, the later file overrides the earlier one: the process
\* environment holds F2's value for X.
C4_LaterFileOverrides ==
  \A f1 \in Files, f2 \in Files, x \in Vars :
    (BatchOfTwo(f1, f2, x) /\ ~HasBadLine(f1) /\ ~HasBadLine(f2))
      => (x \in DOMAIN env /\ env[x] = AssignedValue(f2, x))

\* C5: when load_env_file(F) set X = v1 and code outside the manager then
\* set X = v2, different from v1, unload_env_file(F) leaves X = v2.
C5_UnloadKeepsExternalValue ==
  [][\A f \in Files, x \in Vars :
       (/\ last.op = "set_var" /\ last.file = f /\ last.var = x
        /\ f \in DOMAIN file_variables /\ x \in file_variables[f]
        /\ Defines(f, x) /\ last.value # AssignedValue(f, x)
        /\ ThenUnloaded(f))
       => (x \in DOMAIN env' /\ env'[x] = last.value)]_vars

\* C6: after load_env_variables_from_env_files([F1, F2]) followed by
\* load_env_variables_from_env_files([F2]), F1 is no longer tracked and no
\* variable that only F1 defines is manager-owned.
C6_BatchSupersedes ==
  [][\A f1 \in Files, f2 \in Files :
       (/\ f1 # f2
        /\ last.op = "batch" /\ last.paths = Some(<<f1, f2>>)
        /\ \A i \in DOMAIN last.oks : last.oks[i]
        /\ fs[f1].readable /\ ~HasBadLine(f1)
        /\ fs[f2].readable /\ ~HasBadLine(f2)
        /\ last'.op = "batch" /\ last'.paths = Some(<<f2>>))
       => /\ f1 \notin DOMAIN file_variables'
          /\ \A x \in Vars :
               (Defines(f1, x) /\ ~Defines(f2, x))
                 => x \notin DOMAIN loaded_variables']_vars

\* C7: unload_env_file(F1) changes neither the value nor the recorded owner
\* of a variable whose owner is another tracked file F2.
C7_UnloadSparesOtherOwners ==
  [][\A f1 \in Files, f2 \in Files, x \in Vars :
       (/\ f1 # f2
        /\ f1 \in DOMAIN file_variables /\ f2 \in DOMAIN file_variables
        /\ get_variable_source(x) = Some(f2)
        /\ x \in DOMAIN env
        /\ ThenUnloaded(f1))
       => /\ x \in DOMAIN env' /\ env'[x] = env[x]
          /\ x \in DOMAIN loaded_variables' /\ loaded_variables'[x] = f2]_vars

\* C8: load_env_file(F) of a readable file, called again with the file
\* unchanged and no write of the environment in between, leaves the process
\* environment, loaded_variables and file_variables as the first call left
\* them and returns the same count.
C8_LoadTwiceSame ==
  [][\A f \in Files :
       (/\ Loaded(f) /\ fs[f].readable
        /\ last'.op = "load" /\ last'.file = f /\ last'.ok)
       => /\ env' = env
          /\ loaded_variables' = loaded_variables
          /\ file_variables' = file_variables
          /\ last'.count = last.count]_vars

\* A readable file that sets a variable was loaded twice in a row.
C8_Witness ==
  /\ last.op = "load" /\ last.again /\ last.ok
  /\ fs[last.file].readable /\ last.count > 0

\* C9: load_env_file(F) of a path that exists but cannot be opened returns
\* Err; afterwards F owns no variable.
C9_UnreadableIsError ==
  \A f \in Files :
    (last.op = "load" /\ last.file = f /\ fs[f] = Unreadable)
      => /\ ~last.ok
         /\ \A x \in Vars : get_variable_source(x) # Some(f)

\* C10: load_env_file(F) of a readable file with malformed lines returns Ok
\* with the number of its well-formed lines, each of which is set in the
\* process environment and recorded as owned by F.
C10_MalformedLinesSkipped ==
  \A f \in Files :
    (last.op = "load" /\ last.file = f /\ HasBadLine(f))
      => /\ last.ok
         /\ last.count = Cardinality(WellFormed(f))
         /\ \A x \in Vars :
              Defines(f, x)
                => /\ x \in DOMAIN env /\ env[x] = AssignedValue(f, x)
                   /\ get_variable_source(x) = Some(f)

\* C11: load_env_file(F) of a path that does not exist returns Ok(0);
\* afterwards F is not tracked, no variable has F as its source, and every
\* variable F owned before the call has its baseline value again, or is
\* absent from the process environment when the baseline does not have it.
C11_MissingFileReleases ==
  [][\A f \in Files :
       (last'.op = "load" /\ last'.file = f /\ ~fs[f].exists)
       => /\ last'.ok /\ last'.count = 0
          /\ f \notin DOMAIN file_variables'
          /\ \A x \in DOMAIN loaded_variables' : loaded_variables'[x] # f
          /\ \A x \in DOMAIN loaded_variables :
               loaded_variables[x] = f
                 => IF x \in DOMAIN original_env
                      THEN x \in DOMAIN env' /\ env'[x] = original_env[x]
                      ELSE x \notin DOMAIN env']_vars

\* C11 without its last part: the result and the ledger after the load of a
\* missing path.
C11_LedgerReleased ==
  [][\A f \in Files :
       (last'.op = "load" /\ last'.file = f /\ ~fs[f].exists)
       => /\ last'.ok /\ last'.count = 0
          /\ f \notin DOMAIN file_variables'
          /\ \A x \in DOMAIN loaded_variables' : loaded_variables'[x] # f]_vars

\* C13: with no write of the process environment from outside the manager,
\* cleanup() leaves every variable the manager set with its baseline value,
\* or absent when the baseline does not have it: the process environment is
\* the baseline again.
C13_CleanupRestoresBaseline ==
  [][last'.op = "cleanup" => env' = original_env]_vars

\* C13 for the states in which every variable that differs from the baseline
\* has an owner in the ledger.
C13_OwnedOnly ==
  [][(/\ last'.op = "cleanup"
      /\ \A x \in Vars :
           (x \in DOMAIN env /\ x \notin DOMAIN loaded_variables)
             => (x \in DOMAIN original_env /\ env[x] = original_env[x]))
     => env' = original_env]_vars

\* The sum of the counts load_env_file returns for the paths of p whose load
\* returned Ok, over the positions 1..i.
RECURSIVE SumOfCounts(_, _, _)
SumOfCounts(p, oks, i) ==
  IF i = 0 THEN 0
  ELSE SumOfCounts(p, oks, i - 1)
         + (IF oks[i] THEN load_env_file(Current, p[i], TRUE).count ELSE 0)

\* The position of p at which the batch loads the path p[i] for the last
\* time: the batch goes from the end of the list to its start.
LastLoadOf(p, i) == \A j \in DOMAIN p : p[j] = p[i] => i <= j

\* C14: load_env_variables_from_env_files always returns a count; a path
\* whose load returns Err is skipped and every other path of the list is
\* still loaded (it is tracked afterwards when it exists); the count is the
\* sum of the counts of the loads that returned Ok, 0 when the list is None.
C14_BatchNeverAborts ==
  [][last'.op = "batch"
     => /\ last'.ok
        /\ last'.paths = None
             => (last'.count = 0 /\ file_variables' = file_variables)
        /\ \A p \in last'.paths :
             /\ last'.count = SumOfCounts(p, last'.oks, Len(p))
             /\ \A i \in DOMAIN p :
                  LastLoadOf(p, i)
                    => ((last'.oks[i] /\ fs[p[i]].exists)
                          <=> p[i] \in DOMAIN file_variables')]_vars

\* A batch load in which one load returned Err and another set a variable.
C14_Witness ==
  /\ last.op = "batch"
  /\ \E i \in DOMAIN last.oks : ~last.oks[i]
  /\ last.count > 0

\* C15: reload_env_file(F) leaves the process environment, file_variables
\* and loaded_variables, and returns the count, that unload_env_file(F)
\* followed by load_env_file(F) does.
C15_ReloadIsUnloadThenLoad ==
  [][\A f \in Files :
       (last'.op = "reload" /\ last'.file = f)
       => LET r == load_env_file(unload_env_file(Current, f), f, last'.ok)
          IN  /\ env' = r.st.env
              /\ file_variables' = r.st.file_variables
              /\ loaded_variables' = r.st.loaded_variables
              /\ last'.ok = r.ok
              /\ last'.count = r.count]_vars

\* A path was reloaded twice in a row and the second reload set a variable.
C15_Witness ==
  last.op = "reload" /\ last.again /\ last.ok /\ last.count > 0

\* C16: unload_env_file(F) of a path that is not tracked returns Ok and
\* changes neither the ledger nor the process environment; so does the
\* second of two calls of unload_env_file(F) in a row.
C16_UnloadIdempotent ==
  [][\A f \in Files :
       (/\ ThenUnloaded(f)
        /\ \/ f \notin DOMAIN file_variables
           \/ last.op = "unload" /\ last.file = f)
       => /\ last'.ok
          /\ env' = env
          /\ file_variables' = file_variables
          /\ loaded_variables' = loaded_variables]_vars

\* A path was unloaded twice in a row while another file owns a variable.
C16_Witness ==
  /\ last.op = "unload" /\ last.again
  /\ loaded_variables # EmptyMap

\* C19: with no write of the process environment from outside the manager,
\* the source F of a variable X is the file whose load set X last, and X
\* holds the value F assigns.  A file's value is its own (ValueOf), so the
\* value tells which file wrote it.
C19_OwnerValueIsLive ==
  \A x \in DOMAIN loaded_variables :
    /\ x \in DOMAIN env
    /\ env[x] = ValueOf[loaded_variables[x]]

\* A variable that one file set and another file set after it.
C19_Witness ==
  \E x \in Vars, f \in Files, g \in Files :
    /\ f # g
    /\ get_variable_source(x) = Some(g)
    /\ f \in DOMAIN file_variables /\ x \in file_variables[f]

\* The events that are calls of the manager.
ManagerOps ==
  {"load", "unload", "reload", "batch", "cleanup", "loaded_files_count"}

\* A batch load is between the loads of two files of its list.
BetweenLoads ==
  batch.thread # "" /\ batch.i >= 1 /\ batch.i < Len(batch.paths)

\* C12: a load_env_variables_from_env_files call is one operation under the
\* manager lock: between the loads of two files of the batch, no call of
\* another thread takes effect, so a step that is not the batch's own leaves
\* the ledger and the process environment as they are.
C12_BatchAtomic ==
  [][(/\ BetweenLoads
      /\ batch.paths[batch.i] # batch.paths[batch.i + 1]
      /\ batch' = batch)
     => /\ file_variables' = file_variables
        /\ loaded_variables' = loaded_variables
        /\ env' = env]_vars

\* C17: when several threads call EnvManager::instance() at the same time
\* for the first time, EnvManagerInner::new runs exactly once and every
\* caller gets the same manager.
C17_InitializedOnce ==
  /\ new_calls <= 1
  /\ \A t \in Threads :
       thread[t].pc = "ready"
         => /\ new_calls = 1
            /\ thread[t].manager = ENV_MANAGER.value
            /\ \A u \in Threads :
                 thread[u].pc = "ready" => thread[u].manager = thread[t].manager

\* A thread holds the manager it made while another, which called
\* instance() while the closure ran, is still inside get_or_init.
C17_Witness ==
  \E t \in Threads, u \in Threads :
    thread[t].pc = "ready" /\ thread[u].pc = "wait"

\* C18: original_env is captured when the manager is made, before any call
\* of the manager, and nothing changes it afterwards, whatever happens to
\* the process environment.
C18_BaselineImmutable ==
  [][/\ ENV_MANAGER.state # "init" => last.op \notin ManagerOps
     /\ (ENV_MANAGER.state # "init" /\ ENV_MANAGER'.state = "init")
          => original_env' = env
     /\ ENV_MANAGER.state = "init" => original_env' = original_env]_vars

\* The manager owns a variable of the baseline, code outside the manager
\* wrote it since, and a thread called instance() again.
C18_Witness ==
  /\ ENV_MANAGER.state = "init"
  /\ last.op = "set_var"
  /\ \E x \in DOMAIN original_env :
       /\ x \in DOMAIN loaded_variables
       /\ env[x] # original_env[x]
  /\ \E t \in Threads : thread[t].pc = "start"

\* C20: whenever the manager lock is free, every variable of
\* loaded_variables has as its source a key of file_variables whose set
\* holds the variable.
C20_LedgerConsistent ==
  \A x \in DOMAIN loaded_variables :
    /\ loaded_variables[x] \in DOMAIN file_variables
    /\ x \in file_variables[loaded_variables[x]]

\* Between the two loads of a batch another thread unloaded a file, and the
\* ledger still holds a variable.
C20_Witness ==
  /\ BetweenLoads
  /\ last.op = "unload"
  /\ loaded_variables # EmptyMap

\* C21: the count load_env_file(F) returns for a readable file is the number
\* of variable names F owns right after the call, the size of
\* get_variables_from_file(F), also when F assigns a name on several lines.
C21_CountIsOwnedNames ==
  \A f \in Files :
    (last.op = "load" /\ last.file = f /\ last.ok /\ fs[f].readable)
      => /\ get_variables_from_file(f) # None
         /\ \A owned \in get_variables_from_file(f) :
              last.count = Cardinality(owned)

\* C22: after cleanup() returns, from any reachable state of the manager,
\* loaded_files_count() is 0 and managed_variables_count() is 0.
C22_CleanupEmptiesLedger ==
  last.op = "cleanup"
    => (loaded_files_count = 0 /\ managed_variables_count = 0)

\* cleanup() found every path tracked and unloaded them all.
C22_Witness ==
  /\ last.op = "cleanup"
  /\ last.count = Cardinality(Files)

====
